---- MODULE Spec2Model ----
(***************************************************************************)
(* A model of the route planner: the Graph (node map, edge list, adjacency *)
(* index), the nearest-node lookup of Planner, and AStarPlanner::plan with *)
(* its cost model, one action per loop iteration of the search.            *)
(*                                                                         *)
(* Numbers.  The code computes in double.  The model computes in fixed     *)
(* point: lengths in meters, costs of the distance mode in meters (the     *)
(* code's kilometers times 1000), miles in model miles of 1/1609.34 mile   *)
(* (a length in meters is that many model miles), speeds in 1/100 mph and  *)
(* times in ticks of 3600 / (1609.34 * 975) seconds, so that               *)
(* miles / mph * 3600 is model miles * 97500 / speed, a whole number for   *)
(* the speeds of the inputs.  Node coordinates are whole degrees on the    *)
(* equator, where the haversine formula reduces to R * pi/180 * |dlon|.    *)
(* Sequence positions are 1-based: offset i of the code is position i+1.   *)
(***************************************************************************)
EXTENDS Integers, Sequences, FiniteSets, TLC

VARIABLES
    nodes_,             \* Graph::nodes_: id -> [latitude, longitude]
    edges_,             \* Graph::edges_: sequence of Edge
    adjacency_list_,    \* Graph::adjacency_list_: id -> sequence of positions in edges_
    cost_function_,     \* AStarPlanner::cost_function_
    default_speed_mph_, \* AStarPlanner::default_speed_mph_ (1/100 mph)
    config_,            \* AStarPlanner::config_: NoConfig or the highway speed table
    pc,                 \* position of the one plan call
    start_id,           \* plan: resolved start (0 before resolution, -1 not found)
    goal_id,            \* plan: resolved goal
    node_states,        \* plan: id -> [g_score, parent_id]
    open_set,           \* plan: the frontier, a set of QueueEntry
    nodes_explored,     \* plan: pops so far
    start_coord,        \* plan: the start coordinate handed in
    goal_coord,         \* plan: the goal coordinate handed in
    result,             \* the PlannerResult returned
    trace,              \* history: what the call evaluated, relaxed and expanded
    suspended,          \* the locals of a second plan call while it is not running
    tie_rule,           \* which of several top entries of equal f_value the heap yields
    init_history,       \* history: the arguments of the last Graph::init, and the
                        \* ids that had a node or an adjacency list before it
    factory_result,     \* what the last PlannerFactory::create call ended with
    loader_             \* the DataLoader: its config, traffic_config_ and edges_,
                        \* and (history) the edges as read before modification

vars == <<nodes_, edges_, adjacency_list_, cost_function_, default_speed_mph_,
          config_, pc, start_id, goal_id, node_states, open_set,
          nodes_explored, start_coord, goal_coord, result, trace,
          suspended, tie_rule, init_history, factory_result, loader_>>

graphVars == <<nodes_, edges_, adjacency_list_>>
plannerVars == <<cost_function_, default_speed_mph_, config_>>
planVars == <<start_id, goal_id, node_states, open_set, nodes_explored,
              start_coord, goal_coord, result, trace>>
otherVars == <<suspended, tie_rule, init_history, factory_result, loader_>>

-----------------------------------------------------------------------------
(* Bounds and input domains *)

\* longest edge list handed to Graph::init
MaxEdges == 3

\* node ids of the inputs; node i lies at (0, i-1) degrees
NodeIds == {1, 2, 3}

\* longitudes (degrees, latitude 0) of the coordinates handed to plan
QueryLons == {0, 1, 2}

\* std::optional<T>
NoValue == [has_value |-> FALSE, value |-> 0]
Some(v) == [has_value |-> TRUE, value |-> v]

NoConfig == [present |-> FALSE, highway_speeds |-> <<>>]

-----------------------------------------------------------------------------
(* Arithmetic helpers *)

Abs(x) == IF x < 0 THEN -x ELSE x
Max(a, b) == IF a < b THEN b ELSE a

\* floor(a * b / c) without leaving 32 bits (needs c * b < 2^31)
MulDiv(a, b, c) == (a \div c) * b + ((a % c) * b) \div c

\* the double +inf, which a division of a positive number by zero gives, and
\* the addition of doubles that may be +inf
Infinity == 1000000000
Plus(a, b) == IF a = Infinity \/ b = Infinity THEN Infinity ELSE a + b

\* utils::haversine_distance, times 1000 (meters), for points on the equator:
\* a = sin^2(dlon/2), c = |dlon| in radians, R * c = 6371 km * pi/180 per degree
MetersPerDegree == 111195
haversine_distance(lat1, lon1, lat2, lon2) == MetersPerDegree * Abs(lon2 - lon1)

-----------------------------------------------------------------------------
(* Graph *)

\* struct Node / struct Edge
Node(lat, lon) == [latitude |-> lat, longitude |-> lon]
Edge(src, tgt, dist, speed, hw, ow) ==
    [source |-> src, target |-> tgt, distance |-> dist,
     max_speed |-> speed, highway_type |-> hw, oneway |-> ow]

\* Graph::get_node: the node, or "nullptr" reported by HasNode = FALSE
HasNode(nodes, id) == id \in DOMAIN nodes
get_node(nodes, id) == nodes[id]

\* the positions build_adjacency_list pushes to the list of id, in push order
RECURSIVE AdjacencyOf(_, _, _)
AdjacencyOf(edges, id, i) ==
    IF i > Len(edges) THEN <<>>
    ELSE (IF edges[i].source = id THEN <<i>> ELSE <<>>)
         \o (IF ~edges[i].oneway /\ edges[i].target = id THEN <<i>> ELSE <<>>)
         \o AdjacencyOf(edges, id, i + 1)

\* the adjacency index of a graph built once from edges: the lists of the ids
\* some edge is pushed to
FreshAdjacency(edges) ==
    LET keys == {edges[i].source : i \in 1..Len(edges)}
                \cup {edges[i].target : i \in {j \in 1..Len(edges) : ~edges[j].oneway}}
    IN [id \in keys |-> AdjacencyOf(edges, id, 1)]

\* adjacency_list_[id].push_back(i): operator[] creates the list when id has none
PushBack(adj, id, i) ==
    [k \in DOMAIN adj \cup {id} |->
        IF k = id THEN (IF id \in DOMAIN adj THEN adj[id] ELSE <<>>) \o <<i>>
        ELSE adj[k]]

\* build_adjacency_list, lines 89-95: the loop body for the edge at position i
PushEdge_BothEnds(adj, edge, i) == PushBack(PushBack(adj, edge.source, i), edge.target, i)

PushEdge(adj, edge, i) ==
    LET forward == PushBack(adj, edge.source, i)
    IN IF ~edge.oneway THEN PushBack(forward, edge.target, i) ELSE forward

\* build_adjacency_list, lines 88-96: the loop over the edges from position i on
RECURSIVE PushEdges(_, _, _)
PushEdges(adj, edges, i) ==
    IF i > Len(edges) THEN adj
    ELSE PushEdges(PushEdge(adj, edges[i], i), edges, i + 1)

\* Graph::build_adjacency_list on a graph whose index is adjacency_list:
\* clear(), then the loop
build_adjacency_list_NoClear(adjacency_list, edges) == PushEdges(adjacency_list, edges, 1)

build_adjacency_list(adjacency_list, edges) == PushEdges(<<>>, edges, 1)

\* Graph::straight_line_distance: -1 when either node is missing
straight_line_distance(nodes, from, to) ==
    IF ~HasNode(nodes, from) \/ ~HasNode(nodes, to) THEN -1
    ELSE haversine_distance(get_node(nodes, from).latitude, get_node(nodes, from).longitude,
                            get_node(nodes, to).latitude, get_node(nodes, to).longitude)

\* Graph::get_outgoing_edges: positions in edges_ (the code returns pointers)
get_outgoing_edges(edges, adj, node_id) ==
    IF node_id = -1 THEN [i \in 1..Len(edges) |-> i]
    ELSE IF node_id \in DOMAIN adj THEN adj[node_id]
    ELSE <<>>

-----------------------------------------------------------------------------
(* Planner::find_nearest_node *)

\* the scan with "dist <= min_dist": a later node at an equal distance wins
NearestStep_LastWins(nodes, coord, best, node_id) ==
    IF ~HasNode(nodes, node_id) THEN best
    ELSE LET n == get_node(nodes, node_id)
             dist == haversine_distance(coord.latitude, coord.longitude,
                                        n.latitude, n.longitude)
         IN IF best.id = -1 \/ dist <= best.dist
            THEN [id |-> node_id, dist |-> dist]
            ELSE best

\* one candidate of the scan: best = [id, dist], id = -1 while min_dist is infinite
NearestStep(nodes, coord, best, node_id) ==
    IF ~HasNode(nodes, node_id) THEN best
    ELSE LET n == get_node(nodes, node_id)
             dist == haversine_distance(coord.latitude, coord.longitude,
                                        n.latitude, n.longitude)
         IN IF best.id = -1 \/ dist < best.dist
            THEN [id |-> node_id, dist |-> dist]
            ELSE best

RECURSIVE NearestScan(_, _, _, _, _)
NearestScan(nodes, edges, coord, best, i) ==
    IF i > Len(edges) THEN best
    ELSE NearestScan(nodes, edges, coord,
                     NearestStep(nodes, coord,
                                 NearestStep(nodes, coord, best, edges[i].source),
                                 edges[i].target),
                     i + 1)

find_nearest_node(nodes, edges, coord) ==
    NearestScan(nodes, edges, coord, [id |-> -1, dist |-> 0], 1).id

-----------------------------------------------------------------------------
(* Cost model: AStarPlanner::calculate_edge_cost and AStarPlanner::heuristic *)

\* Config::get_highway_speed, in 1/100 mph
get_highway_speed(config, highway_type, fallback_speed) ==
    IF config.present /\ highway_type \in DOMAIN config.highway_speeds
    THEN config.highway_speeds[highway_type]
    ELSE fallback_speed

\* speed * 0.621371, rounded down: 621371 = 1000 * 621 + 371
KmhToMph(speed) == (speed * 621 + (speed * 371) \div 1000) \div 1000

\* the speed_mph of calculate_edge_cost (and of reconstruct_path), in 1/100 mph;
\* max_speed is kept in hundredths of its unit: max_speed * 0.621371 above 80,
\* max_speed itself up to 80
EffectiveSpeed_TableFirst(edge, default_speed, config) ==
    IF config.present /\ edge.highway_type.has_value
    THEN get_highway_speed(config, edge.highway_type.value, default_speed)
    ELSE IF edge.max_speed.has_value
         THEN IF edge.max_speed.value > 8000
              THEN KmhToMph(edge.max_speed.value)
              ELSE edge.max_speed.value
         ELSE default_speed

EffectiveSpeed(edge, default_speed, config) ==
    IF edge.max_speed.has_value
    THEN IF edge.max_speed.value > 8000
         THEN KmhToMph(edge.max_speed.value)
         ELSE edge.max_speed.value
    ELSE IF config.present /\ edge.highway_type.has_value
         THEN get_highway_speed(config, edge.highway_type.value, default_speed)
         ELSE default_speed

\* distance / 1609.34, in model miles (1 model mile = 1/1609.34 mile)
DistanceMiles(distance) == distance

\* distance_miles / speed_mph * 3600, in ticks, rounded down; exact for the
\* speeds that divide 975 mph (25, 39, 65, 75, ...).  No test on speed_mph
\* precedes the division: a speed of zero gives +inf for a positive distance,
\* a negative speed a cost of the opposite sign.
TimeSeconds(distance_miles, speed) ==
    IF speed = 0 THEN Infinity
    ELSE IF speed < 0 THEN 0 - MulDiv(distance_miles, 97500, 0 - speed)
    ELSE MulDiv(distance_miles, 97500, speed)

\* AStarPlanner::calculate_edge_cost: meters (km * 1000) or ticks
calculate_edge_cost(edge, cost_function, default_speed, config) ==
    IF cost_function = "TIME"
    THEN TimeSeconds(DistanceMiles(edge.distance),
                     EffectiveSpeed(edge, default_speed, config))
    ELSE edge.distance

\* DataLoader::should_include_edge: an edge whose highway type has speed 0 in
\* the table is left out
should_include_edge(config, highway_type) ==
    IF ~config.present THEN TRUE
    ELSE IF ~highway_type.has_value THEN TRUE
    ELSE get_highway_speed(config, highway_type.value, -100) # 0

\* the key std::to_string(source) + "-" + std::to_string(target)
EdgeKey(source, target) == <<source, target>>

\* DataLoader::apply_traffic_modifications: speeds in 1/100 mph, multipliers in
\* hundredths; the result is stored in the edge's max_speed
apply_traffic_modifications(edge, config, traffic_config) ==
    IF ~config.present THEN edge
    ELSE IF EdgeKey(edge.source, edge.target) \notin DOMAIN traffic_config THEN edge
    ELSE
    LET current_speed ==
            IF edge.max_speed.has_value
            THEN IF edge.max_speed.value > 8000
                 THEN KmhToMph(edge.max_speed.value)
                 ELSE edge.max_speed.value
            ELSE IF edge.highway_type.has_value
                 THEN get_highway_speed(config, edge.highway_type.value, 2500)
                 ELSE 2500
        modification == traffic_config[EdgeKey(edge.source, edge.target)]
        modified_speed ==
            IF modification.type = "SPEED_OVERRIDE" THEN modification.value
            ELSE MulDiv(current_speed, modification.value, 100)
    IN IF modification.type \notin {"SPEED_OVERRIDE", "MULTIPLIER"} THEN edge
       ELSE [edge EXCEPT !.max_speed = Some(Max(modified_speed, 100))]

\* DataLoader::parse_edges: the edges kept, each after its traffic modification
RECURSIVE parse_edges(_, _, _, _)
parse_edges(raw, config, traffic_config, i) ==
    IF i > Len(raw) THEN <<>>
    ELSE (IF should_include_edge(config, raw[i].highway_type)
          THEN <<apply_traffic_modifications(raw[i], config, traffic_config)>>
          ELSE <<>>)
         \o parse_edges(raw, config, traffic_config, i + 1)

\* the edges parse_edges keeps, as they were read
RECURSIVE KeptEdges(_, _, _)
KeptEdges(raw, config, i) ==
    IF i > Len(raw) THEN <<>>
    ELSE (IF should_include_edge(config, raw[i].highway_type) THEN <<raw[i]>> ELSE <<>>)
         \o KeptEdges(raw, config, i + 1)

\* distance_km * 0.621371, in model miles, from the distance in meters, rounded
\* down: 0.621371 * 1.60934 = 0.99999720514 = 1 - 1/357799.7
KmToMiles(distance_m) ==
    IF distance_m = 0 THEN 0 ELSE distance_m - (distance_m \div 357800) - 1

\* heuristic with the great-circle distance left in meters where the edge
\* costs are in kilometers (a factor 1000 between estimate and cost)
heuristic_Meters(nodes, current_id, to_id, cost_function, default_speed) ==
    LET current == get_node(nodes, current_id)
        goal == get_node(nodes, to_id)
    IN 1000 * haversine_distance(current.latitude, current.longitude,
                                 goal.latitude, goal.longitude)

\* AStarPlanner::heuristic for two nodes the node map holds
heuristic(nodes, current_id, to_id, cost_function, default_speed) ==
    LET current == get_node(nodes, current_id)
        goal == get_node(nodes, to_id)
        distance_km == haversine_distance(current.latitude, current.longitude,
                                          goal.latitude, goal.longitude)
    IN IF cost_function = "TIME"
       THEN TimeSeconds(KmToMiles(distance_km), Max(default_speed, 5500))
       ELSE distance_km

-----------------------------------------------------------------------------
(* AStarPlanner::plan *)

\* struct NodeState, struct QueueEntry (f = g + h), struct PlannerResult
NodeState(g, parent) == [g_score |-> g, parent_id |-> parent]
QueueEntry(id, g, h) == [node_id |-> id, g_value |-> g, f_value |-> Plus(g, h)]
PlannerResult(ok, path, dist, time, explored) ==
    [success |-> ok, path |-> path, total_distance |-> dist,
     total_time |-> time, num_nodes_explored |-> explored]
FailureResult == PlannerResult(FALSE, <<>>, 0, 0, 0)

EmptyTrace == [relaxed |-> {}, expanded |-> {}, heuristic_calls |-> 0,
               edge_cost_calls |-> 0, pushes |-> 0, null_reads |-> 0]

\* what reading the coordinates of a node through a null pointer can do:
\* stop the process, or carry on with a heuristic value that means nothing
UBOutcomes == {[crash |-> TRUE, h |-> 0], [crash |-> FALSE, h |-> 0],
               [crash |-> FALSE, h |-> 300000]}

\* the neighbor determination without its reverse branch
NeighborOf_ForwardOnly(edge, current_id) ==
    IF edge.source = current_id THEN edge.target ELSE 0

\* lines 115-122: the node the edge leads to from current_id, 0 to skip the edge
NeighborOf(edge, current_id) ==
    IF edge.source = current_id THEN edge.target
    ELSE IF ~edge.oneway /\ edge.target = current_id THEN edge.source
    ELSE 0

\* lines 113-122: the edges the loop visits from current_id with the neighbor of
\* each, as <<position, neighbor>>, the skipped ones left out
RECURSIVE NeighborsFrom(_, _, _)
NeighborsFrom(adj, current_id, k) ==
    IF k > Len(adj) THEN <<>>
    ELSE LET n == NeighborOf(edges_[adj[k]], current_id)
         IN (IF n = 0 THEN <<>> ELSE << <<adj[k], n>> >>)
            \o NeighborsFrom(adj, current_id, k + 1)

\* the loop over every edge that touches current_id, the other end taken as the
\* neighbor whatever the edge's oneway flag says
OutgoingNeighbors_IgnoreOneway(current_id) ==
    LET all == get_outgoing_edges(edges_, adjacency_list_, -1)
        hits == SelectSeq(all, LAMBDA i : \/ edges_[i].source = current_id
                                          \/ edges_[i].target = current_id)
    IN [k \in 1..Len(hits) |->
          <<hits[k], IF edges_[hits[k]].source = current_id
                     THEN edges_[hits[k]].target
                     ELSE edges_[hits[k]].source>>]

OutgoingNeighbors(current_id) ==
    NeighborsFrom(get_outgoing_edges(edges_, adjacency_list_, current_id), current_id, 1)

\* lines 124-136 for one edge: st = [ns, os, tr, crashed]
RelaxEdge(st, i, current_id, neighbor_id, to_id, ub) ==
    IF st.crashed THEN st
    ELSE
    LET cost == calculate_edge_cost(edges_[i], cost_function_, default_speed_mph_, config_)
        tentative_g == Plus(st.ns[current_id].g_score, cost)
        tr1 == [st.tr EXCEPT
                  !.relaxed = @ \cup {[edge |-> i, from |-> current_id,
                                       to |-> neighbor_id, cost |-> cost]},
                  !.edge_cost_calls = @ + 1]
    IN IF neighbor_id \notin DOMAIN st.ns \/ tentative_g < st.ns[neighbor_id].g_score
       THEN LET ns1 == [id \in DOMAIN st.ns \cup {neighbor_id} |->
                          IF id = neighbor_id THEN NodeState(tentative_g, current_id)
                          ELSE st.ns[id]]
                tr2 == [tr1 EXCEPT !.heuristic_calls = @ + 1]
            IN IF HasNode(nodes_, neighbor_id)
               THEN [ns |-> ns1,
                     os |-> st.os \cup {QueueEntry(neighbor_id, tentative_g,
                               heuristic(nodes_, neighbor_id, to_id,
                                         cost_function_, default_speed_mph_))},
                     tr |-> [tr2 EXCEPT !.pushes = @ + 1],
                     crashed |-> FALSE]
               ELSE IF ub.crash
               THEN [ns |-> ns1, os |-> st.os,
                     tr |-> [tr2 EXCEPT !.null_reads = @ + 1], crashed |-> TRUE]
               ELSE [ns |-> ns1,
                     os |-> st.os \cup {QueueEntry(neighbor_id, tentative_g, ub.h)},
                     tr |-> [tr2 EXCEPT !.pushes = @ + 1, !.null_reads = @ + 1],
                     crashed |-> FALSE]
       ELSE [st EXCEPT !.tr = tr1]

\* lines 113-137: the whole for loop over the edges of current_id
RECURSIVE ExploreNeighbors(_, _, _, _, _, _)
ExploreNeighbors(st, nbrs, current_id, to_id, ub, k) ==
    IF k > Len(nbrs) THEN st
    ELSE ExploreNeighbors(RelaxEdge(st, nbrs[k][1], current_id, nbrs[k][2], to_id, ub),
                          nbrs, current_id, to_id, ub, k + 1)

-----------------------------------------------------------------------------
(* AStarPlanner::reconstruct_path *)

\* lines 179-188: the walk over parent_id from the goal; ok = FALSE when a node
\* has no record.  fuel stops the evaluation of a walk that never ends.
RECURSIVE WalkParents(_, _, _, _)
WalkParents(ns, current, path, fuel) ==
    IF current = -1 THEN [ok |-> TRUE, path |-> path]
    ELSE IF current \notin DOMAIN ns \/ fuel = 0 THEN [ok |-> FALSE, path |-> path]
    ELSE WalkParents(ns, ns[current].parent_id, Append(path, current), fuel - 1)

\* lines 179-188: the while loop never meets -1 nor a node without record: the
\* walk has visited more nodes than there are records, so it is on a cycle of
\* parent_id and appends to path for ever
WalkIsEndless(ns, goal) ==
    LET walk == WalkParents(ns, goal, <<>>, Cardinality(DOMAIN ns) + 1)
    IN ~walk.ok /\ Len(walk.path) = Cardinality(DOMAIN ns) + 1

Reverse(s) == [i \in 1..Len(s) |-> s[Len(s) + 1 - i]]

\* lines 209-242: the first edge of from_id's list that leads to to_id, 0 if none
RECURSIVE FindPathEdge(_, _, _, _)
FindPathEdge(adj, from_id, to_id, k) ==
    IF k > Len(adj) THEN 0
    ELSE LET e == edges_[adj[k]]
         IN IF \/ (e.source = from_id /\ e.target = to_id)
               \/ (~e.oneway /\ e.target = from_id /\ e.source = to_id)
            THEN adj[k]
            ELSE FindPathEdge(adj, from_id, to_id, k + 1)

\* the totals taken from the first edge of each node's list, without the test
\* that the edge leads to the next node of the path
RECURSIVE PathTotals_FirstEdge(_, _, _)
PathTotals_FirstEdge(path, i, acc) ==
    IF i > Len(path) \/ ~acc.found THEN acc
    ELSE LET adj == get_outgoing_edges(edges_, adjacency_list_, path[i-1])
         IN IF Len(adj) = 0 THEN [acc EXCEPT !.found = FALSE]
            ELSE PathTotals_FirstEdge(path, i + 1,
                   [found |-> TRUE,
                    total_distance |-> acc.total_distance + edges_[adj[1]].distance,
                    total_time |-> Plus(acc.total_time,
                          TimeSeconds(DistanceMiles(edges_[adj[1]].distance),
                                      EffectiveSpeed(edges_[adj[1]], default_speed_mph_,
                                                     config_)))])

\* lines 200-250: the totals over the consecutive pairs of path from pair i on
RECURSIVE PathTotals(_, _, _)
PathTotals(path, i, acc) ==
    IF i > Len(path) \/ ~acc.found THEN acc
    ELSE LET e == FindPathEdge(get_outgoing_edges(edges_, adjacency_list_, path[i-1]),
                               path[i-1], path[i], 1)
         IN IF e = 0 THEN [acc EXCEPT !.found = FALSE]
            ELSE PathTotals(path, i + 1,
                   [found |-> TRUE,
                    total_distance |-> acc.total_distance + edges_[e].distance,
                    total_time |-> Plus(acc.total_time,
                          TimeSeconds(DistanceMiles(edges_[e].distance),
                                      EffectiveSpeed(edges_[e], default_speed_mph_,
                                                     config_)))])

reconstruct_path(ns, start, goal) ==
    LET walk == WalkParents(ns, goal, <<>>, Cardinality(DOMAIN ns) + 1)
    IN IF ~walk.ok THEN FailureResult
       ELSE IF walk.path[Len(walk.path)] # start THEN FailureResult
       ELSE LET path == Reverse(walk.path)
                totals == PathTotals(path, 2, [found |-> TRUE, total_distance |-> 0,
                                               total_time |-> 0])
            IN IF ~totals.found THEN FailureResult
               ELSE PlannerResult(TRUE, path, totals.total_distance,
                                  totals.total_time, 0)

-----------------------------------------------------------------------------
(* State machine *)

\* the locals of a plan call that has not begun
IdleCall ==
    [pc |-> "idle", start_id |-> 0, goal_id |-> 0, node_states |-> <<>>,
     open_set |-> {}, nodes_explored |-> 0, start_coord |-> Node(0, 0),
     goal_coord |-> Node(0, 0), result |-> FailureResult, trace |-> EmptyTrace]

InitObjects ==
    /\ nodes_ = <<>>
    /\ edges_ = <<>>
    /\ adjacency_list_ = <<>>
    /\ cost_function_ = "DISTANCE"
    /\ default_speed_mph_ = 2500
    /\ config_ = NoConfig
    /\ pc = "idle"
    /\ start_id = 0
    /\ goal_id = 0
    /\ node_states = <<>>
    /\ open_set = {}
    /\ nodes_explored = 0
    /\ start_coord = Node(0, 0)
    /\ goal_coord = Node(0, 0)
    /\ result = FailureResult
    /\ trace = EmptyTrace
    /\ suspended = IdleCall
    /\ init_history = [nodes |-> <<>>, edges |-> <<>>, replaced |-> {}]
    /\ factory_result = "none"
    /\ loader_ = [loaded |-> FALSE, config_ |-> NoConfig, traffic_config_ |-> <<>>,
                  edges_ |-> <<>>, read |-> <<>>]

\* the objects as constructed; the heap's choice among equal entries left open
Init == InitObjects /\ tie_rule = "any"

\* Graph::init, called once on the fresh Graph
GraphInit(nodes, edges) ==
    /\ pc = "idle"
    /\ nodes_' = nodes
    /\ edges_' = edges
    /\ adjacency_list_' = build_adjacency_list(adjacency_list_, edges)
    /\ init_history' = [nodes |-> nodes, edges |-> edges,
                        replaced |-> DOMAIN nodes_ \cup DOMAIN adjacency_list_]
    /\ UNCHANGED <<suspended, tie_rule, factory_result, loader_, plannerVars, pc, planVars>>

\* AStarPlanner::set_config
SetConfig(config) ==
    /\ pc = "idle"
    /\ config_' = config
    /\ UNCHANGED <<otherVars, graphVars, cost_function_, default_speed_mph_, pc, planVars>>

\* DataLoader::load: the config and its traffic section are taken, then the
\* edges are parsed (the node file is read as it is)
Load(raw, config, traffic) ==
    /\ pc = "idle"
    /\ loader_' = [loaded |-> TRUE,
                   config_ |-> config,
                   traffic_config_ |-> IF config.present THEN traffic
                                       ELSE loader_.traffic_config_,
                   edges_ |-> parse_edges(raw, config,
                                          IF config.present THEN traffic
                                          ELSE loader_.traffic_config_, 1),
                   read |-> KeptEdges(raw, config, 1)]
    /\ UNCHANGED <<suspended, tie_rule, init_history, factory_result, graphVars,
                   plannerVars, pc, planVars>>

\* PlannerFactory::create(const Config&): the planner named by planner.type,
\* set to distance mode with the configured default speed; std::invalid_argument
\* for a type that is not "astar"
Create(planner_type, default_speed) ==
    /\ pc = "idle"
    /\ IF planner_type = "astar"
       THEN /\ factory_result' = "planner"
            /\ cost_function_' = "DISTANCE"
            /\ default_speed_mph_' = default_speed
            /\ config_' = NoConfig
       ELSE /\ factory_result' = "invalid_argument"
            /\ UNCHANGED plannerVars
    /\ UNCHANGED <<suspended, tie_rule, init_history, loader_, graphVars, pc, planVars>>

\* AStarPlanner::set_cost_function
SetCostFunction(cost_func, default_speed_mph) ==
    /\ pc = "idle"
    /\ cost_function_' = cost_func
    /\ default_speed_mph_' = default_speed_mph
    /\ UNCHANGED <<otherVars, graphVars, config_, pc, planVars>>

\* the test of line 75 left out: the search starts whatever the lookups returned
ResolutionFailed_Never(s, g) == FALSE

\* plan, line 75: start_id == -1 || goal_id == -1
ResolutionFailed(s, g) == s = -1 \/ g = -1

\* plan, lines 72-79: resolve both coordinates, return at once if either fails
PlanResolve(s_coord, g_coord) ==
    /\ pc = "idle"
    /\ LET s == find_nearest_node(nodes_, edges_, s_coord)
           g == find_nearest_node(nodes_, edges_, g_coord)
       IN /\ start_id' = s
          /\ goal_id' = g
          /\ IF ResolutionFailed(s, g)
             THEN pc' = "done" /\ result' = FailureResult
             ELSE pc' = "seed" /\ UNCHANGED result
    /\ start_coord' = s_coord
    /\ goal_coord' = g_coord
    /\ UNCHANGED <<otherVars, graphVars, plannerVars, node_states, open_set, nodes_explored, trace>>

\* plan, lines 81-91: the record of the start and the first frontier entry
PlanSeed ==
    /\ pc = "seed"
    /\ node_states' = [id \in {start_id} |-> NodeState(0, -1)]
    /\ open_set' = {QueueEntry(start_id, 0,
                       heuristic(nodes_, start_id, goal_id,
                                 cost_function_, default_speed_mph_))}
    /\ nodes_explored' = 0
    /\ trace' = [trace EXCEPT !.heuristic_calls = @ + 1, !.pushes = @ + 1]
    /\ pc' = "loop"
    /\ UNCHANGED <<otherVars, graphVars, plannerVars, start_id, goal_id, start_coord,
                   goal_coord, result>>

\* which of two entries of equal f_value the heap yields first.  The heap is a
\* deterministic structure: its choice is fixed by the operations done on it.
\* "any" leaves the choice open; "low" and "high" fix it by node id, then g
TieBefore(a, b) ==
    \/ tie_rule = "any"
    \/ tie_rule = "low"
          /\ (a.node_id < b.node_id \/ (a.node_id = b.node_id /\ a.g_value <= b.g_value))
    \/ tie_rule = "high"
          /\ (a.node_id > b.node_id \/ (a.node_id = b.node_id /\ a.g_value >= b.g_value))

\* top() of the heap that holds entries: an entry no other entry precedes
IsTopOf(entries, current) ==
    \A other \in entries :
        \/ current.f_value < other.f_value
        \/ current.f_value = other.f_value /\ TieBefore(current, other)

\* open_set.top()
IsTop(current) == IsTopOf(open_set, current)

\* plan, line 108: the popped entry is worse than the record of its node
Superseded_Never(ns, current) == FALSE

Superseded(ns, current) == current.g_value > ns[current.node_id].g_score

\* plan, lines 94-105: the popped entry is the goal
PlanGoal(current) ==
    /\ pc = "loop"
    /\ current \in open_set /\ IsTop(current)
    /\ current.node_id = goal_id
    /\ open_set' = open_set \ {current}
    /\ nodes_explored' = nodes_explored + 1
    /\ IF WalkIsEndless(node_states, goal_id)
       THEN pc' = "hung" /\ result' = result
       ELSE /\ result' = [reconstruct_path(node_states, start_id, goal_id)
                           EXCEPT !.num_nodes_explored = nodes_explored + 1]
            /\ pc' = "done"
    /\ UNCHANGED <<otherVars, graphVars, plannerVars, start_id, goal_id, start_coord,
                   goal_coord, node_states, trace>>

\* plan, lines 94-110: the popped entry is worse than the record of its node
PlanStale(current) ==
    /\ pc = "loop"
    /\ current \in open_set /\ IsTop(current)
    /\ current.node_id # goal_id
    /\ Superseded(node_states, current)
    /\ open_set' = open_set \ {current}
    /\ nodes_explored' = nodes_explored + 1
    /\ UNCHANGED <<otherVars, graphVars, plannerVars, pc, start_id, goal_id, start_coord,
                   goal_coord, node_states, result, trace>>

\* plan, lines 94-137: the popped entry is expanded
PlanExpand(current, ub) ==
    /\ pc = "loop"
    /\ current \in open_set /\ IsTop(current)
    /\ current.node_id # goal_id
    /\ ~Superseded(node_states, current)
    /\ LET st == ExploreNeighbors(
                    [ns |-> node_states, os |-> open_set \ {current},
                     tr |-> [trace EXCEPT !.expanded = @ \cup {current.node_id}],
                     crashed |-> FALSE],
                    OutgoingNeighbors(current.node_id), current.node_id, goal_id, ub, 1)
       IN /\ node_states' = st.ns
          /\ open_set' = st.os
          /\ trace' = st.tr
          /\ pc' = IF st.crashed THEN "crashed" ELSE "loop"
    /\ nodes_explored' = nodes_explored + 1
    /\ UNCHANGED <<otherVars, graphVars, plannerVars, start_id, goal_id, start_coord,
                   goal_coord, result>>

\* plan, lines 93 and 140-142: the frontier is empty
PlanExhausted ==
    /\ pc = "loop"
    /\ open_set = {}
    /\ result' = FailureResult
    /\ pc' = "done"
    /\ UNCHANGED <<otherVars, graphVars, plannerVars, start_id, goal_id, start_coord,
                   goal_coord, node_states, open_set, nodes_explored, trace>>

-----------------------------------------------------------------------------
(* Inputs *)

NodeAt(i) == Node(0, i - 1)
Hav(s, t) == haversine_distance(NodeAt(s).latitude, NodeAt(s).longitude,
                                NodeAt(t).latitude, NodeAt(t).longitude)

EdgeLists(E) == UNION {[1..n -> E] : n \in 0..MaxEdges}
QueryCoords == {Node(0, lon) : lon \in QueryLons}

\* node maps: every node, the middle node missing (edges to it dangle), or the
\* middle node alone (an edge between the others touches no node of the map)
NodeMaps == {[i \in S |-> NodeAt(i)] : S \in {NodeIds, NodeIds \ {2}, {2}}}

\* edges of the distance runs, no speed attributes: two-way edges much shorter
\* than the great circle between the endpoints or exactly as long, and one-way
\* edges of the exact length between neighbouring nodes in either direction
EndPairs == {<<s, t>> \in NodeIds \X NodeIds : s < t}
NeighbourPairs == {<<s, t>> \in NodeIds \X NodeIds : Abs(s - t) = 1}
DistanceEdges ==
    UNION {{Edge(p[1], p[2], d, NoValue, NoValue, FALSE) :
               d \in {1000, Hav(p[1], p[2])}} : p \in EndPairs}
    \cup {Edge(p[1], p[2], Hav(p[1], p[2]), NoValue, NoValue, TRUE) :
              p \in NeighbourPairs}

\* edges of the time runs, as long as the great circle: two-way edges between
\* any two nodes without a speed limit or with 65 mph, two-way edges between
\* neighbouring nodes with 75 mph, and a one-way edge without a speed limit
TimeEdges ==
    {Edge(p[1], p[2], Hav(p[1], p[2]), sp, NoValue, FALSE) :
        p \in EndPairs, sp \in {NoValue, Some(6500)}}
    \cup {Edge(p[1], p[2], Hav(p[1], p[2]), Some(7500), NoValue, FALSE) :
              p \in EndPairs \cap NeighbourPairs}
    \cup {Edge(1, 3, Hav(1, 3), NoValue, NoValue, TRUE)}

Fresh == pc = "idle" /\ suspended.pc = "idle" /\ nodes_ = <<>> /\ edges_ = <<>>
InitGraph == Fresh /\ \E nodes \in NodeMaps, edges \in EdgeLists(DistanceEdges) :
                         GraphInit(nodes, edges)
InitGraphTime == Fresh /\ \E edges \in EdgeLists(TimeEdges) :
                             GraphInit([i \in NodeIds |-> NodeAt(i)], edges)
SetTimeCost == \E sp \in {2500, 6500} : SetCostFunction("TIME", sp)
Resolve == pc = "idle" /\ \E s \in QueryCoords, g \in QueryCoords : PlanResolve(s, g)
PopGoal == pc = "loop" /\ \E current \in open_set : PlanGoal(current)
PopStale == pc = "loop" /\ \E current \in open_set : PlanStale(current)
PopExpand == pc = "loop" /\ \E current \in open_set, ub \in UBOutcomes :
                              PlanExpand(current, ub)

Next == InitGraph \/ Resolve \/ PlanSeed \/ PopGoal \/ PopStale \/ PopExpand
        \/ PlanExhausted
Spec == Init /\ [][Next]_vars

NextTime == InitGraphTime \/ SetTimeCost \/ Resolve \/ PlanSeed \/ PopGoal
            \/ PopStale \/ PopExpand \/ PlanExhausted
SpecTime == Init /\ [][NextTime]_vars

\* edges of a graph whose lengths and speeds are taken as they come
MaxRawEdges == 3
\* frontier pops of a search on such a graph
MaxPops == 5

\* Graph::init and parse_edges store the length and the speed limit of an edge
\* as they come, whatever their sign.  Edges of the runs on such graphs, every
\* node in the node map: a two-way edge of negative length, two-way edges of
\* the exact length with a speed limit of zero or below zero, and one-way edges
\* without speed limit, a short one and one that leaves node 3
RawEdges ==
    {Edge(1, 2, 0 - 1000, NoValue, NoValue, FALSE),
     Edge(1, 2, Hav(1, 2), Some(0), NoValue, FALSE),
     Edge(2, 3, Hav(2, 3), Some(0 - 6500), NoValue, FALSE),
     Edge(1, 2, 1000, NoValue, NoValue, TRUE),
     Edge(3, 1, Hav(1, 3), NoValue, NoValue, TRUE)}
RawEdgeLists == UNION {[1..n -> RawEdges] : n \in 0..MaxRawEdges}
InitGraphRaw == Fresh /\ \E edges \in RawEdgeLists :
                            GraphInit([i \in NodeIds |-> NodeAt(i)], edges)

\* the runs follow a search for MaxPops pops of the frontier
WithinPops == nodes_explored < MaxPops
PopGoalRaw == WithinPops /\ PopGoal
PopStaleRaw == WithinPops /\ PopStale
PopExpandRaw == WithinPops /\ PopExpand

NextRaw == InitGraphRaw \/ SetTimeCost \/ Resolve \/ PlanSeed \/ PopGoalRaw
           \/ PopStaleRaw \/ PopExpandRaw \/ PlanExhausted
SpecRaw == Init /\ [][NextRaw]_vars

\* a plan call that has begun goes on, nothing in the engine suspends it: weak
\* fairness of the seed, of the pops and of the exit.  The fairness of the pops
\* is written out, PopRawEnabled being ENABLED <<PopRaw>>_vars: the loop pops
\* whatever entry is on top of a frontier that is not empty
PopRaw == PopGoalRaw \/ PopStaleRaw \/ PopExpandRaw
PopRawEnabled == pc = "loop" /\ open_set # {} /\ WithinPops
FairSpecRaw ==
    /\ SpecRaw
    /\ WF_vars(PlanSeed)
    /\ WF_vars(PlanExhausted)
    /\ ([]<>(~PopRawEnabled) \/ []<><<PopRaw>>_vars)

\* the lookups of plan alone, on graphs of two-way edges of the exact length
\* between any two nodes, with every node map
NearestEdges == {Edge(p[1], p[2], Hav(p[1], p[2]), NoValue, NoValue, FALSE) : p \in EndPairs}
InitGraphNearest == Fresh /\ \E nodes \in NodeMaps, edges \in EdgeLists(NearestEdges) :
                                GraphInit(nodes, edges)
NextNearest == InitGraphNearest \/ Resolve
SpecNearest == Init /\ [][NextNearest]_vars

\* the time runs, a call that has begun going on
Pop == PopGoal \/ PopStale \/ PopExpand
PopEnabled == pc = "loop" /\ open_set # {}
FairSpecTime ==
    /\ SpecTime
    /\ WF_vars(PlanSeed)
    /\ WF_vars(PlanExhausted)
    /\ ([]<>(~PopEnabled) \/ []<><<Pop>>_vars)

\* plan, lines 93-142, run from the loop's entry to its end without any other
\* call in between: st = [ns, os, tr, crashed]
RECURSIVE SearchAlone(_, _, _, _, _)
SearchAlone(st, explored, from_id, to_id, ub) ==
    IF st.crashed THEN [returned |-> FALSE, result |-> FailureResult, trace |-> st.tr]
    ELSE IF st.os = {} THEN [returned |-> TRUE, result |-> FailureResult, trace |-> st.tr]
    ELSE
    LET current == CHOOSE e \in st.os : IsTopOf(st.os, e)
        rest == [st EXCEPT !.os = @ \ {current}]
    IN IF current.node_id = to_id
       THEN [returned |-> TRUE,
             result |-> [reconstruct_path(st.ns, from_id, to_id)
                           EXCEPT !.num_nodes_explored = explored + 1],
             trace |-> st.tr]
       ELSE IF Superseded(st.ns, current)
       THEN SearchAlone(rest, explored + 1, from_id, to_id, ub)
       ELSE SearchAlone(
                ExploreNeighbors([rest EXCEPT !.tr.expanded = @ \cup {current.node_id}],
                                 OutgoingNeighbors(current.node_id),
                                 current.node_id, to_id, ub, 1),
                explored + 1, from_id, to_id, ub)

\* plan, lines 69-143, as one call made alone on the graph and planner as they
\* are: what it returns, if it returns
PlanAlone(s_coord, g_coord, ub) ==
    LET from_id == find_nearest_node(nodes_, edges_, s_coord)
        to_id == find_nearest_node(nodes_, edges_, g_coord)
    IN IF ResolutionFailed(from_id, to_id)
       THEN [returned |-> TRUE, result |-> FailureResult, trace |-> EmptyTrace]
       ELSE SearchAlone(
                [ns |-> [id \in {from_id} |-> NodeState(0, -1)],
                 os |-> {QueueEntry(from_id, 0,
                            heuristic(nodes_, from_id, to_id,
                                      cost_function_, default_speed_mph_))},
                 tr |-> [EmptyTrace EXCEPT !.heuristic_calls = 1, !.pushes = 1],
                 crashed |-> FALSE],
                0, from_id, to_id, ub)

\* Two plan calls on the same planner and graph (plan is a const member
\* function whose working state is local to the call): the running call's
\* locals are the plan variables, the other call's locals are kept aside.
\* A crash ends the process, and with it both calls.
RunningCall ==
    [pc |-> pc, start_id |-> start_id, goal_id |-> goal_id,
     node_states |-> node_states, open_set |-> open_set,
     nodes_explored |-> nodes_explored, start_coord |-> start_coord,
     goal_coord |-> goal_coord, result |-> result, trace |-> trace]

Switch ==
    /\ pc \in {"seed", "loop", "done"}
    /\ suspended' = RunningCall
    /\ pc' = suspended.pc
    /\ start_id' = suspended.start_id
    /\ goal_id' = suspended.goal_id
    /\ node_states' = suspended.node_states
    /\ open_set' = suspended.open_set
    /\ nodes_explored' = suspended.nodes_explored
    /\ start_coord' = suspended.start_coord
    /\ goal_coord' = suspended.goal_coord
    /\ result' = suspended.result
    /\ trace' = suspended.trace
    /\ UNCHANGED <<tie_rule, init_history, factory_result, loader_, graphVars, plannerVars>>

\* graphs of the two-call runs: exact-length, short, parallel and one-way edges
\* over the fully present node map or the one that lacks node 2
PairEdges ==
    {Edge(1, 2, Hav(1, 2), NoValue, NoValue, FALSE),
     Edge(1, 3, Hav(1, 3), NoValue, NoValue, FALSE),
     Edge(3, 2, 1000, NoValue, NoValue, TRUE),
     Edge(1, 2, 1000, NoValue, NoValue, FALSE)}
PairQueries == {Node(0, 0), Node(0, 2)}
InitGraphPair ==
    Fresh /\ \E S \in {NodeIds, NodeIds \ {2}}, edges \in EdgeLists(PairEdges) :
                GraphInit([i \in S |-> NodeAt(i)], edges)
ResolvePair == pc = "idle" /\ \E s \in PairQueries, g \in PairQueries : PlanResolve(s, g)

\* the heap's choice among equal entries is fixed before the calls
InitPair == InitObjects /\ tie_rule \in {"low", "high"}
NextPair == InitGraphPair \/ ResolvePair \/ Switch \/ PlanSeed \/ PopGoal
            \/ PopStale \/ PopExpand \/ PlanExhausted
SpecPair == InitPair /\ [][NextPair]_vars

\* The program's set-up: the factory is asked for the planner (an exception
\* it throws is caught nowhere and ends the program), then one Graph is
\* initialised any number of times.  Edges here include self-loops and edges
\* in both orientations; the node maps differ in node 2.
PlannerTypes == {"astar", "dijkstra", ""}
SetupEdges ==
    {Edge(1, 2, 1000, NoValue, NoValue, FALSE),
     Edge(2, 3, 1000, NoValue, NoValue, TRUE),
     Edge(2, 2, 1000, NoValue, NoValue, TRUE),
     Edge(3, 3, 1000, NoValue, NoValue, FALSE)}
SetupNodeMaps == {[i \in S |-> NodeAt(i)] : S \in {NodeIds, NodeIds \ {2}}}
CreatePlanner ==
    factory_result = "none" /\ \E planner_type \in PlannerTypes : Create(planner_type, 2500)
InitGraphAgain ==
    factory_result = "planner"
    /\ \E nodes \in SetupNodeMaps, edges \in EdgeLists(SetupEdges) : GraphInit(nodes, edges)

NextSetup == CreatePlanner \/ InitGraphAgain
SpecSetup == Init /\ [][NextSetup]_vars

\* Loaded graphs in time mode: edges between nodes 1 and 2, read with or
\* without a speed limit (65 mph, 100 km/h) and a highway tag (in the speed
\* table or not), alone or followed by a parallel 75 mph edge and a one-way
\* edge from node 3, under a traffic section that has at most one
\* modification, for the key "1-2"
MaxTrafficEdges == 1
HighwayTable == [present |-> TRUE, highway_speeds |-> [t \in {"primary"} |-> 7500]]
ReadEdges ==
    {Edge(1, 2, Hav(1, 2), sp, hw, FALSE) :
        sp \in {NoValue, Some(6500), Some(10000)},
        hw \in {NoValue, Some("primary"), Some("track")}}
ReadTails ==
    {<<>>, <<Edge(1, 2, Hav(1, 2), Some(7500), NoValue, FALSE),
             Edge(3, 2, Hav(2, 3), NoValue, NoValue, TRUE)>>}
ReadEdgeLists ==
    {head \o tail : head \in UNION {[1..n -> ReadEdges] : n \in 0..MaxTrafficEdges},
                    tail \in ReadTails}
TrafficModification(type, value) == [type |-> type, value |-> value]
TrafficSections ==
    {<<>>}
    \cup {[k \in {EdgeKey(1, 2)} |-> TrafficModification("SPEED_OVERRIDE", v)] :
              v \in {0, 3900, 10000}}
    \cup {[k \in {EdgeKey(1, 2)} |-> TrafficModification("MULTIPLIER", m)] :
              m \in {0, 50, 200}}
TrafficQueries == QueryCoords
LoadEdges ==
    Fresh /\ ~loader_.loaded
    /\ \E raw \in ReadEdgeLists, config \in {NoConfig, HighwayTable},
           traffic \in TrafficSections : Load(raw, config, traffic)
InitGraphLoaded ==
    Fresh /\ loader_.loaded /\ init_history.edges # loader_.edges_
    /\ GraphInit([i \in NodeIds |-> NodeAt(i)], loader_.edges_)
SetPlannerConfig ==
    config_ = NoConfig /\ SetConfig(HighwayTable)
ResolveTraffic ==
    pc = "idle" /\ cost_function_ = "TIME"
    /\ \E s \in TrafficQueries, g \in TrafficQueries : PlanResolve(s, g)

NextTraffic == LoadEdges \/ InitGraphLoaded \/ SetTimeCost \/ SetPlannerConfig
               \/ ResolveTraffic \/ PlanSeed \/ PopGoal \/ PopStale \/ PopExpand
               \/ PlanExhausted
SpecTraffic == Init /\ [][NextTraffic]_vars

-----------------------------------------------------------------------------
(* Reference notions the properties are stated with *)

Min(S) == CHOOSE x \in S : \A y \in S : x <= y

\* every id the graph mentions
Ids == DOMAIN nodes_ \cup {edges_[i].source : i \in 1..Len(edges_)}
                     \cup {edges_[i].target : i \in 1..Len(edges_)}

\* edge i may be traversed from u to v (one-way rules respected)
Traversable(i, u, v) ==
    \/ edges_[i].source = u /\ edges_[i].target = v
    \/ ~edges_[i].oneway /\ edges_[i].target = u /\ edges_[i].source = v

\* cost of edge i in the active mode
EdgeCost(i) == calculate_edge_cost(edges_[i], cost_function_, default_speed_mph_, config_)

Resolved == start_id > 0 /\ goal_id > 0
Returned == pc = "done"
Ended == pc \in {"done", "crashed", "hung"}

\* cheapest edge cost of one hop u -> v, -1 if no edge may be traversed so
HopCost(u, v) ==
    LET c == {EdgeCost(i) : i \in {j \in 1..Len(edges_) : Traversable(j, u, v)}}
    IN IF c = {} THEN -1 ELSE Min(c)
RECURSIVE PathCost(_, _)
PathCost(path, k) ==
    IF k >= Len(path) THEN 0 ELSE HopCost(path[k], path[k+1]) + PathCost(path, k + 1)
PathTraversable(path) ==
    \A k \in 1..(Len(path) - 1) : HopCost(path[k], path[k+1]) # -1


\* the traversable paths from a to b that visit no node twice
SimplePaths(a, b) ==
    {p \in UNION {[1..n -> Ids] : n \in 1..Cardinality(Ids)} :
        /\ p[1] = a
        /\ p[Len(p)] = b
        /\ \A i \in 1..Len(p), j \in 1..Len(p) : p[i] = p[j] => i = j
        /\ PathTraversable(p)}

\* cheapest cost of a traversable path from a to b (no edge cost is negative, so
\* a cheapest path visits no node twice); -1 = no path
Cheapest(a, b) ==
    LET costs == {PathCost(p, 1) : p \in SimplePaths(a, b)}
    IN IF costs = {} THEN -1 ELSE Min(costs)
Reachable(a, b) == a \in Ids /\ b \in Ids /\ Cheapest(a, b) # -1

-----------------------------------------------------------------------------
(* Properties *)

\* C1: whenever the resolved start and goal are connected by a traversable
\* path, the plan call returns success with a non-empty path that begins at
\* the resolved start and ends at the resolved goal.
C1_ConnectedPlanSucceeds ==
    (Ended /\ Resolved /\ Reachable(start_id, goal_id))
        => /\ Returned
           /\ result.success
           /\ Len(result.path) > 0
           /\ result.path[1] = start_id
           /\ result.path[Len(result.path)] = goal_id

\* C2: a successful plan returns a cheapest path: its summed edge cost in the
\* active mode equals the cheapest cost of any traversable start-goal path.
C2_ReturnedPathIsCheapest ==
    (Returned /\ result.success)
        => /\ PathTraversable(result.path)
           /\ PathCost(result.path, 1) = Cheapest(start_id, goal_id)

\* the heuristic value a frontier entry was pushed with
EntryH(e) == e.f_value - e.g_value

\* every edge joins two nodes of the node map and is at least as long as the
\* great circle between them
GeometricEdges ==
    \A i \in 1..Len(edges_) :
        /\ HasNode(nodes_, edges_[i].source)
        /\ HasNode(nodes_, edges_[i].target)
        /\ edges_[i].distance >=
              haversine_distance(nodes_[edges_[i].source].latitude,
                                 nodes_[edges_[i].source].longitude,
                                 nodes_[edges_[i].target].latitude,
                                 nodes_[edges_[i].target].longitude)

\* the heuristic never exceeds the cheapest path cost: for every pair of nodes
\* of the node map (looked at before the plan call, the graph does not change
\* after it), and for every entry the search has in its frontier
HeuristicAdmissible ==
    /\ pc = "idle"
          => \A a \in DOMAIN nodes_, b \in DOMAIN nodes_ :
                Reachable(a, b)
                    => heuristic(nodes_, a, b, cost_function_, default_speed_mph_)
                           <= Cheapest(a, b)
    /\ pc = "loop"
          => \A e \in open_set :
                Reachable(e.node_id, goal_id)
                    => EntryH(e) <= Cheapest(e.node_id, goal_id)

\* C3: in distance mode the heuristic is admissible for every graph the Graph
\* accepts: heuristic(a, b) is at most the cheapest summed edge cost of a
\* traversable path from a to b, whatever lengths the edges carry.
C3_DistanceHeuristicAdmissible ==
    cost_function_ = "DISTANCE" => HeuristicAdmissible

\* C3 (amended): in distance mode the heuristic is admissible for every graph
\* whose edges each join two nodes of the node map and are at least as long as
\* the great-circle distance between their endpoints.
C3_GeometricHeuristicAdmissible ==
    (cost_function_ = "DISTANCE" /\ GeometricEdges) => HeuristicAdmissible

\* the search holds a frontier entry, not the goal, whose heuristic equals the
\* cheapest cost to the goal, in a geometric graph
C3_Witness ==
    /\ cost_function_ = "DISTANCE" /\ GeometricEdges /\ pc = "loop"
    /\ \E e \in open_set :
          /\ e.node_id # goal_id
          /\ e.g_value > 0
          /\ Reachable(e.node_id, goal_id)
          /\ EntryH(e) = Cheapest(e.node_id, goal_id)

\* C4: in time mode the heuristic is admissible: for every node from which the
\* goal is reachable it never exceeds the smallest total time cost of a
\* traversable path to the goal, whatever speeds the edges carry.
C4_TimeHeuristicAdmissible ==
    (cost_function_ = "TIME" /\ Resolved)
        => /\ \A a \in DOMAIN nodes_ :
                 Reachable(a, goal_id)
                     => heuristic(nodes_, a, goal_id, cost_function_, default_speed_mph_)
                            <= Cheapest(a, goal_id)
           /\ pc = "loop"
                 => \A e \in open_set :
                       Reachable(e.node_id, goal_id)
                           => EntryH(e) <= Cheapest(e.node_id, goal_id)

\* C5: a one-way edge is never traversed from its target to its source: every
\* relaxation over it goes from its source to its target, and every consecutive
\* pair (target, source) of a returned path has another edge that may be
\* traversed that way.
C5_OneWayNeverReversed ==
    /\ \A r \in trace.relaxed :
          edges_[r.edge].oneway
              => r.from = edges_[r.edge].source /\ r.to = edges_[r.edge].target
    /\ (Returned /\ result.success)
          => \A k \in 1..(Len(result.path) - 1), i \in 1..Len(edges_) :
                (/\ edges_[i].oneway
                 /\ edges_[i].target = result.path[k]
                 /\ edges_[i].source = result.path[k+1])
                    => \E j \in 1..Len(edges_) :
                          j # i /\ Traversable(j, result.path[k], result.path[k+1])

\* the search expanded the target of a one-way edge and returned
C5_Witness ==
    /\ Returned
    /\ \E i \in 1..Len(edges_) :
          /\ edges_[i].oneway
          /\ edges_[i].target \in trace.expanded
          /\ edges_[i].source \notin trace.expanded

\* the other end of edge i seen from u
OtherEnd(i, u) == IF edges_[i].source = u THEN edges_[i].target ELSE edges_[i].source

\* C6: a two-way edge is used by the search from either end: expanding one of
\* its ends relaxes the other end over it, and the cost charged for the edge is
\* the same in both directions, in distance mode and in time mode.
C6_TwoWayBothDirections ==
    \A i \in 1..Len(edges_) :
        ~edges_[i].oneway
            => /\ pc # "crashed"
                  => \A u \in trace.expanded \cap {edges_[i].source, edges_[i].target} :
                        \E r \in trace.relaxed :
                            r.edge = i /\ r.from = u /\ r.to = OtherEnd(i, u)
               /\ \A r1 \in trace.relaxed, r2 \in trace.relaxed :
                     (r1.edge = i /\ r2.edge = i) => r1.cost = r2.cost
               /\ \A r \in trace.relaxed : r.edge = i => r.cost = EdgeCost(i)

\* one search, in time mode, relaxed over the same two-way edge in both directions
C6_Witness ==
    /\ cost_function_ = "TIME"
    /\ \E r1 \in trace.relaxed, r2 \in trace.relaxed :
          /\ r1.edge = r2.edge
          /\ ~edges_[r1.edge].oneway
          /\ edges_[r1.edge].max_speed.has_value
          /\ r1.from = edges_[r1.edge].source
          /\ r2.from = edges_[r1.edge].target

\* the sums of edge lengths over the pairs of path from pair k on, one edge
\* traversable from u to v chosen for each pair (u, v)
RECURSIVE PathLengthSums(_, _)
PathLengthSums(path, k) ==
    IF k >= Len(path) THEN {0}
    ELSE {edges_[i].distance + rest :
            i \in {j \in 1..Len(edges_) : Traversable(j, path[k], path[k+1])},
            rest \in PathLengthSums(path, k + 1)}

\* C7: for every successful result, every consecutive pair of the path has an
\* edge traversable from the first to the second, and total_distance is the sum
\* of the lengths of one such edge per pair.
C7_TotalDistanceIsSumOfEdgeLengths ==
    (Returned /\ result.success)
        => /\ \A k \in 1..(Len(result.path) - 1) :
                 \E i \in 1..Len(edges_) :
                     Traversable(i, result.path[k], result.path[k+1])
           /\ result.total_distance \in PathLengthSums(result.path, 1)

\* a successful result over two hops of different length, the first node of
\* the path having an edge listed before the one the path takes
C7_Witness ==
    /\ Returned /\ result.success
    /\ Len(result.path) = 3
    /\ result.total_distance = 1000 + MetersPerDegree
    /\ Len(get_outgoing_edges(edges_, adjacency_list_, result.path[1])) > 1

\* C8: when the resolved goal is not reachable from the resolved start, plan
\* ends with the frontier empty and returns success=false with an empty path
\* and zero total distance.
C8_UnreachableGoalFails ==
    (Ended /\ Resolved /\ ~Reachable(start_id, goal_id))
        => /\ Returned
           /\ ~result.success
           /\ result.path = <<>>
           /\ result.total_distance = 0
           /\ open_set = {}

\* C9: when the lookup of the start or of the goal returns not-found, plan
\* returns success=false with an empty path at once: nothing was pushed or
\* popped, no heuristic and no edge cost was evaluated.
C9_ResolutionFailureReturnsAtOnce ==
    (start_id = -1 \/ goal_id = -1)
        => /\ Returned
           /\ ~result.success
           /\ result.path = <<>>
           /\ trace.pushes = 0
           /\ nodes_explored = 0
           /\ trace.heuristic_calls = 0
           /\ trace.edge_cost_calls = 0
           /\ trace.relaxed = {}
           /\ trace.expanded = {}
           /\ open_set = {}
           /\ node_states = <<>>

\* plan returned after a failed lookup on a graph that has nodes and edges
C9_Witness ==
    /\ Returned
    /\ start_id = -1
    /\ DOMAIN nodes_ # {}
    /\ Len(edges_) > 0

\* id is a node of the node map nearest to coord
IsNearest(id, coord) ==
    /\ HasNode(nodes_, id)
    /\ \A n \in DOMAIN nodes_ :
          haversine_distance(coord.latitude, coord.longitude,
                             nodes_[id].latitude, nodes_[id].longitude)
              <= haversine_distance(coord.latitude, coord.longitude,
                                    nodes_[n].latitude, nodes_[n].longitude)

\* C10: find_nearest_node returns a node of the node map whose great-circle
\* distance to the coordinate is minimal over all nodes of the node map, nodes
\* that no edge touches included.
C10_NearestNodeIsNearest ==
    (pc # "idle" /\ DOMAIN nodes_ # {})
        => IsNearest(start_id, start_coord) /\ IsNearest(goal_id, goal_coord)

\* C11: find_nearest_node returns not-found (-1) only when the graph has no
\* nodes: whenever the node map is non-empty, both lookups of plan return the
\* id of a node of the node map.
C11_NotFoundOnlyWhenNoNodes ==
    (pc # "idle" /\ DOMAIN nodes_ # {})
        => /\ start_id # -1 /\ HasNode(nodes_, start_id)
           /\ goal_id # -1 /\ HasNode(nodes_, goal_id)

\* both calls were made with the same start and goal coordinates
SameInputs ==
    /\ pc # "idle" /\ suspended.pc # "idle"
    /\ start_coord = suspended.start_coord
    /\ goal_coord = suspended.goal_coord

\* C12: two plan calls with the same start and goal coordinates on the same
\* unmodified graph and planner settings both return, and return identical
\* results (success flag, path, total distance, nodes explored), whatever fixed
\* choice the heap makes among entries of equal f.
C12_SameInputsSameResult ==
    (SameInputs /\ Ended /\ suspended.pc = "done")
        => Returned /\ result = suspended.result

\* every edge endpoint is a node of the node map
NoDanglingEdge == \A i \in 1..Len(edges_) :
    HasNode(nodes_, edges_[i].source) /\ HasNode(nodes_, edges_[i].target)

\* C12, restricted to graphs whose edges only name nodes of the node map
C12_SameResultOnWellFormedGraph == NoDanglingEdge => C12_SameInputsSameResult

\* C15: when an edge names a node that is absent from the node map, plan never
\* reads the missing node (no read through the null pointer get_node returned),
\* the missing neighbour gets no g/parent record and no frontier entry, and the
\* call still returns a result.
C15_MissingNodeNeverRead ==
    /\ trace.null_reads = 0
    /\ \A id \in DOMAIN node_states : HasNode(nodes_, id)
    /\ \A e \in open_set : HasNode(nodes_, e.node_id)
    /\ Ended => Returned

\* position i is in the adjacency list of id
InList(i, id) ==
    id \in DOMAIN adjacency_list_
    /\ \E k \in 1..Len(adjacency_list_[id]) : adjacency_list_[id][k] = i

QueryIds == NodeIds \cup {0}

\* get_outgoing_edges(id) returns the edges at the positions of id's list, and
\* nothing when id has no list
OutgoingIsList ==
    \A id \in QueryIds :
        get_outgoing_edges(edges_, adjacency_list_, id)
            = IF id \in DOMAIN adjacency_list_ THEN adjacency_list_[id] ELSE <<>>

FreshGraph(nodes, edges) ==
    [nodes_ |-> nodes, edges_ |-> edges,
     adjacency_list_ |-> build_adjacency_list(<<>>, edges)]

\* the edges get_outgoing_edges points to
EdgesAt(edges, positions) ==
    [k \in 1..Len(positions) |->
        IF positions[k] \in 1..Len(edges) THEN edges[positions[k]] ELSE NoValue]

\* C14: after any sequence of init calls the Graph answers get_node,
\* get_outgoing_edges and straight_line_distance as a fresh Graph initialised
\* once with the arguments of the last init.
C14_ReinitEqualsFreshInit ==
    LET fresh == FreshGraph(init_history.nodes, init_history.edges)
    IN /\ \A id \in QueryIds :
             /\ HasNode(nodes_, id) <=> HasNode(fresh.nodes_, id)
             /\ HasNode(nodes_, id) => get_node(nodes_, id) = get_node(fresh.nodes_, id)
       /\ \A id \in QueryIds \cup {-1} :
             EdgesAt(edges_, get_outgoing_edges(edges_, adjacency_list_, id))
                = EdgesAt(fresh.edges_,
                          get_outgoing_edges(fresh.edges_, fresh.adjacency_list_, id))
       /\ \A a \in QueryIds, b \in QueryIds :
             straight_line_distance(nodes_, a, b)
                = straight_line_distance(fresh.nodes_, a, b)

\* an init that replaced a graph which had a node and an adjacency list the
\* new arguments do not have
C14_Witness ==
    /\ \E id \in init_history.replaced :
           ~HasNode(nodes_, id) /\ id \notin DOMAIN adjacency_list_
    /\ edges_ # <<>>

\* C16: no public operation reports an error by an exception or a fault:
\* creating a planner never ends with a thrown std::invalid_argument, and a
\* plan call never ends without a result.
C16_ErrorsAreValues ==
    /\ factory_result # "invalid_argument"
    /\ pc # "crashed"

\* the graph holds the edges the loader produced
GraphIsLoaded == loader_.loaded /\ edges_ = loader_.edges_ /\ edges_ # <<>>

\* the modification the loader's traffic section has for edge i, if any
HasModification(i, type) ==
    /\ EdgeKey(edges_[i].source, edges_[i].target) \in DOMAIN loader_.traffic_config_
    /\ loader_.traffic_config_[EdgeKey(edges_[i].source, edges_[i].target)].type = type
ModificationValue(i) ==
    loader_.traffic_config_[EdgeKey(edges_[i].source, edges_[i].target)].value

\* length in miles / speed * 3600, in ticks
TravelTime(distance, speed) == MulDiv(distance, 97500, speed)

\* C17: in time mode the cost of an edge whose key has an absolute-speed
\* override of v mph is its length in miles / max(v, 1 mph) * 3600, for every
\* v and whatever speed limit or highway type the edge was read with.
C17_OverrideDeterminesCost ==
    (cost_function_ = "TIME" /\ GraphIsLoaded)
        => \A r \in trace.relaxed :
              HasModification(r.edge, "SPEED_OVERRIDE")
                 => r.cost = TravelTime(edges_[r.edge].distance,
                                        Max(ModificationValue(r.edge), 100))

\* C17, for overrides of at most 80 mph
C17_OverrideUpTo80 ==
    (cost_function_ = "TIME" /\ GraphIsLoaded)
        => \A r \in trace.relaxed :
              (HasModification(r.edge, "SPEED_OVERRIDE") /\ ModificationValue(r.edge) <= 8000)
                 => r.cost = TravelTime(edges_[r.edge].distance,
                                        Max(ModificationValue(r.edge), 100))

\* C18: in time mode the speed used for an edge whose key has a multiplier m is
\* max(m * s, 1 mph), s being the speed the cost model resolves for the edge as
\* it was read (limit with the >80 rule, else table value, else the planner's
\* default speed).
C18_MultiplierScalesResolvedSpeed ==
    (cost_function_ = "TIME" /\ GraphIsLoaded)
        => \A r \in trace.relaxed :
              HasModification(r.edge, "MULTIPLIER")
                 => r.cost = TravelTime(edges_[r.edge].distance,
                                Max(MulDiv(EffectiveSpeed(loader_.read[r.edge],
                                                          default_speed_mph_, config_),
                                           ModificationValue(r.edge), 100), 100))

\* C18, when the planner's default speed is 25 mph, the planner has the
\* loader's config, and the product is at most 80 mph
C18_MultiplierWithLoaderSettings ==
    (cost_function_ = "TIME" /\ GraphIsLoaded /\ default_speed_mph_ = 2500
       /\ config_ = loader_.config_)
        => \A r \in trace.relaxed :
              LET speed == MulDiv(EffectiveSpeed(loader_.read[r.edge],
                                                 default_speed_mph_, config_),
                                  ModificationValue(r.edge), 100)
              IN (HasModification(r.edge, "MULTIPLIER") /\ speed <= 8000)
                    => r.cost = TravelTime(edges_[r.edge].distance, Max(speed, 100))

\* the speed the time-mode cost is stated with: the first that applies of the
\* explicit limit, the highway tag's table value, the default speed
StatedSpeed(edge) ==
    CASE edge.max_speed.has_value /\ edge.max_speed.value > 8000
            -> KmhToMph(edge.max_speed.value)
      [] edge.max_speed.has_value /\ edge.max_speed.value <= 8000
            -> edge.max_speed.value
      [] ~edge.max_speed.has_value /\ edge.highway_type.has_value /\ config_.present
            -> IF edge.highway_type.value \in DOMAIN config_.highway_speeds
               THEN config_.highway_speeds[edge.highway_type.value]
               ELSE default_speed_mph_
      [] OTHER -> default_speed_mph_

SoloRun(call) == PlanAlone(call.start_coord, call.goal_coord, [crash |-> TRUE, h |-> 0])

\* the call has begun, and made alone it reads no missing node and returns
ReturnsAlone(call) ==
    /\ call.pc # "idle"
    /\ SoloRun(call).returned /\ SoloRun(call).trace.null_reads = 0

\* C20: in any interleaving of two plan calls on one Graph, each call returns
\* the result it returns when it runs alone (stated for the calls that return
\* when alone): no call is lost, and a call that is done has its solo result.
C20_InterleavedCallsReturnSoloResults ==
    \A call \in {RunningCall, suspended} :
        ReturnsAlone(call)
            => /\ pc # "crashed"
               /\ call.pc = "done" => call.result = SoloRun(call).result

\* C20, restricted to graphs whose edges only name nodes of the node map
C20_SoloResultsOnWellFormedGraph == NoDanglingEdge => C20_InterleavedCallsReturnSoloResults

\* a step of one call leaves the Graph and the other call's search state as
\* they are; only a switch of calls exchanges the two
C20_CallsAreIsolated ==
    [][pc # "idle" => /\ graphVars' = graphVars
                      /\ suspended' = suspended \/ suspended' = RunningCall]_vars

\* the call went past the resolution of its endpoints and has returned
SearchReturned == Returned /\ ~ResolutionFailed(start_id, goal_id)

\* C21: for every plan call that performed a search, whatever its outcome,
\* num_nodes_explored of the returned result is the number of entries popped
\* from the frontier during the call, stale entries included.
C21_ExploredCountsPops ==
    SearchReturned => result.num_nodes_explored = nodes_explored

\* C21, for the calls that ended by popping the goal
C21_ExploredCountsPopsAtGoal ==
    (SearchReturned /\ open_set # {}) => result.num_nodes_explored = nodes_explored

\* the entry's g is worse than the best g recorded for its node
HasBetterRecord(e) ==
    e.node_id \in DOMAIN node_states /\ node_states[e.node_id].g_score < e.g_value

C22_GoalEntryOnTopIsCurrent ==
    pc = "loop" => \A e \in open_set :
                      (IsTop(e) /\ e.node_id = goal_id) => ~HasBetterRecord(e)

Enumeration ==
    [k \in 1..(2 * Len(edges_)) |->
        IF k % 2 = 1 THEN edges_[(k + 1) \div 2].source ELSE edges_[k \div 2].target]
DistanceTo(coord, id) ==
    haversine_distance(coord.latitude, coord.longitude,
                       nodes_[id].latitude, nodes_[id].longitude)
\* positions of the enumeration that hold a node of the node map
Met == {k \in DOMAIN Enumeration : HasNode(nodes_, Enumeration[k])}
\* positions holding a node at the minimal distance among the nodes met
MetNearest(coord) ==
    {k \in Met : \A j \in Met : DistanceTo(coord, Enumeration[k])
                                    <= DistanceTo(coord, Enumeration[j])}
\* the node at the first of these positions, -1 when no node is met
FirstMetNearest(coord) ==
    LET enum == Enumeration
        met == {k \in DOMAIN enum : HasNode(nodes_, enum[k])}
        d == [k \in met |-> DistanceTo(coord, enum[k])]
    IN IF met = {} THEN -1
       ELSE enum[CHOOSE k \in met :
                    \A j \in met : d[k] < d[j] \/ (d[k] = d[j] /\ k <= j)]

\* plan has made its two lookups and nothing else (lines 72-79)
JustResolved == pc = "seed" \/ (pc = "done" /\ ResolutionFailed(start_id, goal_id))

\* C25: when several of the nodes find_nearest_node meets are at the same
\* minimal distance from the coordinate, it returns the one met first in its
\* enumeration (edge-list order, source before target); a later node at an
\* equal distance never replaces it.
C25_FirstMetWinsTies ==
    JustResolved => /\ start_id = FirstMetNearest(start_coord)
                    /\ goal_id = FirstMetNearest(goal_coord)

\* a lookup was made with two different nodes at the minimal distance, and the
\* one met later has the smaller id
C25_Witness ==
    /\ JustResolved
    /\ \E k \in MetNearest(start_coord) :
          /\ Enumeration[k] # start_id
          /\ Enumeration[k] < start_id

\* the aggregate of the result in the unit of the active cost function
ActiveAggregate ==
    IF cost_function_ = "TIME" THEN result.total_time ELSE result.total_distance

\* two edges of the edge list connect the same pair of nodes
HasParallelEdges ==
    \E i, j \in 1..Len(edges_) :
        /\ i # j
        /\ {edges_[i].source, edges_[i].target} = {edges_[j].source, edges_[j].target}

\* C27: for every successful result the reported aggregate in the active unit
\* (total_distance in distance mode, total_time in time mode) equals the
\* accumulated cost g the search recorded for the goal, also when several edges
\* of different length or speed connect the same pair of nodes.
C27_AggregateIsGoalCost ==
    (Returned /\ result.success) => ActiveAggregate = node_states[goal_id].g_score

\* C27, for the graphs in which no two edges connect the same pair of nodes
C27_AggregateIsGoalCostWithoutParallelEdges ==
    (Returned /\ result.success /\ ~HasParallelEdges)
        => ActiveAggregate = node_states[goal_id].g_score

\* the search popped the goal
GoalPopped == pc \in {"done", "hung"} /\ goal_id \in DOMAIN node_states

\* the walk over the predecessor links from id ends, at the node it returns
LinksLeadTo(id) ==
    LET walk == WalkParents(node_states, id, <<>>, Cardinality(DOMAIN node_states) + 1)
    IN IF walk.ok THEN walk.path[Len(walk.path)] ELSE -1

\* C23: whenever the search pops the goal, the predecessor links it recorded
\* lead from the goal back to the resolved start in finitely many steps, with
\* no cycle and no node lacking a record.
C23_LinksLeadBackToStart ==
    GoalPopped => LinksLeadTo(goal_id) = start_id

\* C23, for the searches that returned a successful or failed result
C23_LinksLeadBackToStartWhenReturned ==
    (GoalPopped /\ pc = "done") => LinksLeadTo(goal_id) = start_id

\* the costs the search computed, and the records it holds
CostsAreFinite == \A r \in trace.relaxed : 0 <= r.cost /\ r.cost < Infinity
RecordsAreFinite ==
    \A n \in DOMAIN node_states :
        /\ node_states[n].g_score < Infinity
        /\ node_states[n].parent_id \in DOMAIN node_states
              => node_states[node_states[n].parent_id].g_score <= node_states[n].g_score

\* C28: in time mode every edge cost the search computes is finite and not
\* negative, so no recorded g is infinite or lower than the g of its
\* predecessor, for every edge the Graph can hold.
C28_TimeCostFiniteNonNegative ==
    cost_function_ = "TIME" => CostsAreFinite /\ RecordsAreFinite

\* C28, the speed alone: every time-mode cost the search computed was divided
\* by a strictly positive speed
C28_SpeedIsPositive ==
    cost_function_ = "TIME"
        => \A r \in trace.relaxed :
              EffectiveSpeed(edges_[r.edge], default_speed_mph_, config_) > 0

\* C28, the costs of the edges of positive length that have a speed of zero
C28_ZeroSpeedCostIsFinite ==
    cost_function_ = "TIME"
        => \A r \in trace.relaxed :
              (/\ edges_[r.edge].distance > 0
               /\ EffectiveSpeed(edges_[r.edge], default_speed_mph_, config_) = 0)
                  => r.cost < Infinity

\* the search has made the MaxPops pops the runs follow, and is going on
BeyondPops == pc = "loop" /\ ~WithinPops

\* C24: every plan call that began its search terminates: after finitely many
\* frontier pops it pops the goal or finds the frontier empty, and returns,
\* for every combination of edge lengths and speed attributes the Graph
\* accepts (searches are followed for MaxPops pops).
C24_PlanTerminates == (pc = "seed") ~> (pc = "done" \/ BeyondPops)

\* C24, on the graphs whose lengths and speeds are positive
C24_PlanTerminatesOnPositiveGraphs == (pc = "seed") ~> (pc = "done")

\* the pops are enabled exactly where the fairness condition takes them to be
PopRawEnabledIsEnabled == PopRawEnabled <=> ENABLED <<PopRaw>>_vars

\* the search has recorded its start
Searching == pc \in {"loop", "done", "hung", "crashed"} /\ start_id \in DOMAIN node_states

\* the pairs <<node, cost>> of the walks of at most k traversable edges that
\* leave the start
RECURSIVE WalkCosts(_)
WalkCosts(k) ==
    IF k = 0 THEN {<<start_id, 0>>}
    ELSE LET shorter == WalkCosts(k - 1)
         IN shorter \cup
            {<<v, Plus(w[2], EdgeCost(i))>> :
                <<w, i, v>> \in {x \in shorter \X (1..Len(edges_)) \X Ids :
                                    Traversable(x[2], x[1][1], x[3])}}

\* the start keeps g = 0 and no predecessor
StartKeepsZero == Searching => node_states[start_id] = NodeState(0, -1)

\* each recorded g is the cost of a traversable walk from the start
RecordsAreWalkCosts ==
    Searching => \A n \in DOMAIN node_states :
                    <<n, node_states[n].g_score>> \in WalkCosts(nodes_explored)

\* the records this step wrote: new ones and replaced ones
Written == {n \in DOMAIN node_states' :
               n \notin DOMAIN node_states \/ node_states'[n] # node_states[n]}

\* a record is replaced only by a strictly smaller g, and a written record holds
\* the predecessor that produced it over one of its edges
ReplacedOnlyByBetter ==
    \A n \in Written :
        /\ n \in DOMAIN node_states => node_states'[n].g_score < node_states[n].g_score
        /\ LET u == node_states'[n].parent_id
           IN /\ u \in DOMAIN node_states
              /\ \E i \in 1..Len(edges_) :
                    /\ Traversable(i, u, n)
                    /\ node_states'[n].g_score = Plus(node_states[u].g_score, EdgeCost(i))

\* each written record has its frontier entry, g the recorded value and
\* f = g + heuristic(n, goal), and the step pushed one entry per record it wrote
WrittenRecordsArePushed ==
    /\ \A n \in Written :
          /\ HasNode(nodes_, n) /\ HasNode(nodes_, goal_id)
          /\ QueueEntry(n, node_states'[n].g_score,
                        heuristic(nodes_, n, goal_id, cost_function_,
                                  default_speed_mph_)) \in open_set'
    /\ trace'.pushes - trace.pushes = trace'.heuristic_calls - trace.heuristic_calls

\* C26: at every step of one search the start keeps g = 0 with no predecessor,
\* each recorded g(n) is the total cost of a traversable walk from the start
\* to n, a record is replaced only by a strictly smaller tentative g together
\* with the predecessor that produced it, and each new or replaced record
\* pushes exactly one frontier entry with the recorded g and
\* f = g + heuristic(n, goal).
C26_BookkeepingInvariants ==
    [][/\ StartKeepsZero'
       /\ RecordsAreWalkCosts'
       /\ (start_id \in Written \ DOMAIN node_states) \/ ReplacedOnlyByBetter
       /\ WrittenRecordsArePushed]_vars

\* C26, part by part
C26_StartKeepsZero == [][StartKeepsZero']_vars
C26_RecordsAreWalkCosts == [][RecordsAreWalkCosts']_vars
C26_ReplacedOnlyByBetter ==
    [][(start_id \in Written \ DOMAIN node_states) \/ ReplacedOnlyByBetter]_vars
C26_WrittenRecordsArePushed == [][WrittenRecordsArePushed]_vars
====
